---- MODULE Spec2Model ----
(***************************************************************************)
(* ClusterEnv (src/src/pufferlib/environments/cluster_env.py): the         *)
(* Kubernetes cluster-management environment as a state machine.           *)
(*                                                                         *)
(* Number representation.  Rewards are Python floats that are sums of      *)
(* multiples of 0.1; they are kept as integers in tenths (54.9 is 549).    *)
(* Percent gauges are the integers 0..100.  The random source returns a    *)
(* float in [0,1); a draw is kept in hundredths (0.30 is 30).  An          *)
(* observation entry is the exact quotient <<numerator, denominator>>;     *)
(* the final rounding to float32 is monotone and is not modelled.          *)
(***************************************************************************)
EXTENDS Integers, Sequences, FiniteSets, TLC

(* Bounds of the model. *)
WideCap == 1        \* step calls per episode, any of the 15 actions
DeepCap == 3        \* step calls per episode, core actions only
MaxStepsCfg == 2    \* the configured max_steps
MaxItems == 1       \* objects per listing of the external cluster
MaxObjects == 2     \* objects of the external cluster, all listings together
MaxBadCalls == 1    \* failing external calls per handler
MaxTotal == 101     \* largest total drawn for the observation encoder

VARIABLES
    simulation_mode,   \* constructor option
    max_steps,         \* constructor option
    current_step,
    total_reward,      \* tenths
    state,             \* Optional[ClusterState]: <<>> is None, <<s>> is s
    action_history,
    sim_issues,        \* _sim_issues, a list of tags
    cluster,           \* the external cluster: what kubectl would list
    kubectl_log,       \* the external calls of the last handler, in order
    last_call,         \* "init", "reset", "step", or "step_raised": the last handler
    prev_state,        \* step's local prev_state
    obs,               \* returned observation
    reward,            \* returned reward (tenths)
    terminated,        \* returned flag
    truncated,         \* returned flag
    info               \* returned metadata record

vars == <<simulation_mode, max_steps, current_step, total_reward, state,
          action_history, sim_issues, cluster, kubectl_log, last_call,
          prev_state, obs, reward, terminated, truncated, info>>

(***************************************************************************)
(* ClusterAction                                                           *)
(***************************************************************************)
ActionNames ==
    <<"GET_NODES", "GET_PODS", "GET_EVENTS", "GET_DEPLOYMENTS", "CHECK_LOGS",
      "DESCRIBE_UNHEALTHY", "RESTART_FAILED_PODS", "SCALE_UP_DEPLOYMENT",
      "SCALE_DOWN_DEPLOYMENT", "DRAIN_NODE", "UNCORDON_NODE", "TOP_NODES",
      "TOP_PODS", "GET_RESOURCE_QUOTAS", "WAIT">>

NUM_ACTIONS == Len(ActionNames)

Actions == 0 .. (NUM_ACTIONS - 1)

ActionName(a) == ActionNames[a + 1]

GET_NODES == 0
GET_PODS == 1
GET_EVENTS == 2
RESTART_FAILED_PODS == 6
SCALE_DOWN_DEPLOYMENT == 8
UNCORDON_NODE == 10
WAIT == 14

(***************************************************************************)
(* Small helpers standing for Python built-ins.                            *)
(***************************************************************************)
Max(a, b) == IF a >= b THEN a ELSE b

InList(x, list) == \E i \in 1 .. Len(list) : list[i] = x

\* list.remove(x): removes the first occurrence (x is present)
ListRemove(list, x) ==
    LET i == CHOOSE k \in 1 .. Len(list) :
                 list[k] = x /\ \A j \in 1 .. (k - 1) : list[j] # x
    IN  SubSeq(list, 1, i - 1) \o SubSeq(list, i + 1, Len(list))

\* sum(1 for x in list if x == v)
CountEq(list, v) == Cardinality({i \in 1 .. Len(list) : list[i] = v})

(***************************************************************************)
(* ClusterState and its observation vector                                 *)
(***************************************************************************)
OBS_DIM == 18

\* mutant: the pod total is scaled by 10, not by 1000
to_observation_PodsPerTen(s) ==
    << <<s.num_nodes, 100>>,
       <<s.nodes_ready, Max(s.num_nodes, 1)>>,
       <<s.nodes_not_ready, Max(s.num_nodes, 1)>>,
       <<s.num_pods, 10>>,
       <<s.pods_running, Max(s.num_pods, 1)>>,
       <<s.pods_pending, Max(s.num_pods, 1)>>,
       <<s.pods_failed, Max(s.num_pods, 1)>>,
       <<s.pods_unknown, Max(s.num_pods, 1)>>,
       <<s.num_deployments, 100>>,
       <<s.deployments_available, Max(s.num_deployments, 1)>>,
       <<s.deployments_unavailable, Max(s.num_deployments, 1)>>,
       <<s.cpu_usage_percent, 100>>,
       <<s.memory_usage_percent, 100>>,
       IF s.recent_events_warning <= 100
           THEN <<s.recent_events_warning, 100>> ELSE <<1, 1>>,
       IF s.recent_events_normal <= 100
           THEN <<s.recent_events_normal, 100>> ELSE <<1, 1>>,
       IF s.has_pvc_issues THEN <<1, 1>> ELSE <<0, 1>>,
       IF s.has_network_issues THEN <<1, 1>> ELSE <<0, 1>>,
       IF s.has_resource_pressure THEN <<1, 1>> ELSE <<0, 1>> >>

to_observation(s) ==
    << <<s.num_nodes, 100>>,
       <<s.nodes_ready, Max(s.num_nodes, 1)>>,
       <<s.nodes_not_ready, Max(s.num_nodes, 1)>>,
       <<s.num_pods, 1000>>,
       <<s.pods_running, Max(s.num_pods, 1)>>,
       <<s.pods_pending, Max(s.num_pods, 1)>>,
       <<s.pods_failed, Max(s.num_pods, 1)>>,
       <<s.pods_unknown, Max(s.num_pods, 1)>>,
       <<s.num_deployments, 100>>,
       <<s.deployments_available, Max(s.num_deployments, 1)>>,
       <<s.deployments_unavailable, Max(s.num_deployments, 1)>>,
       <<s.cpu_usage_percent, 100>>,
       <<s.memory_usage_percent, 100>>,
       IF s.recent_events_warning <= 100
           THEN <<s.recent_events_warning, 100>> ELSE <<1, 1>>,
       IF s.recent_events_normal <= 100
           THEN <<s.recent_events_normal, 100>> ELSE <<1, 1>>,
       IF s.has_pvc_issues THEN <<1, 1>> ELSE <<0, 1>>,
       IF s.has_network_issues THEN <<1, 1>> ELSE <<0, 1>>,
       IF s.has_resource_pressure THEN <<1, 1>> ELSE <<0, 1>> >>

(***************************************************************************)
(* Simulation: fault injection and state derivation                        *)
(***************************************************************************)
\* mutant: the first two draws decide each other's tag
reset_simulation_SwappedDraws(draws) ==
    (IF draws[2] < 30 THEN <<"pod_failure">> ELSE <<>>)
    \o (IF draws[1] < 20 THEN <<"node_not_ready">> ELSE <<>>)
    \o (IF draws[3] < 20 THEN <<"resource_pressure">> ELSE <<>>)
    \o (IF draws[4] < 10 THEN <<"pvc_issue">> ELSE <<>>)
    \o (IF draws[5] < 10 THEN <<"network_issue">> ELSE <<>>)

\* _reset_simulation: five draws, in this order, each against its threshold
reset_simulation(draws) ==
    (IF draws[1] < 30 THEN <<"pod_failure">> ELSE <<>>)
    \o (IF draws[2] < 20 THEN <<"node_not_ready">> ELSE <<>>)
    \o (IF draws[3] < 20 THEN <<"resource_pressure">> ELSE <<>>)
    \o (IF draws[4] < 10 THEN <<"pvc_issue">> ELSE <<>>)
    \o (IF draws[5] < 10 THEN <<"network_issue">> ELSE <<>>)

\* mutant: the warning events follow pod_failure, not any fault
get_simulated_state_WarningsOnPodFailure(issues) ==
    LET num_nodes == 5
        num_pods == 50
        num_deployments == 10
        nodes_not_ready == IF InList("node_not_ready", issues) THEN 1 ELSE 0
        pods_failed == IF InList("pod_failure", issues) THEN 5 ELSE 0
        pods_pending == IF InList("resource_pressure", issues) THEN 3 ELSE 0
    IN  [ num_nodes |-> num_nodes,
          nodes_ready |-> num_nodes - nodes_not_ready,
          nodes_not_ready |-> nodes_not_ready,
          num_pods |-> num_pods,
          pods_running |-> num_pods - pods_failed - pods_pending,
          pods_pending |-> pods_pending,
          pods_failed |-> pods_failed,
          pods_unknown |-> 0,
          num_deployments |-> num_deployments,
          deployments_available |->
              num_deployments - (IF pods_failed > 0 THEN 1 ELSE 0),
          deployments_unavailable |-> IF pods_failed > 0 THEN 1 ELSE 0,
          cpu_usage_percent |->
              IF InList("resource_pressure", issues) THEN 80 ELSE 40,
          memory_usage_percent |->
              IF InList("resource_pressure", issues) THEN 75 ELSE 35,
          recent_events_warning |-> IF pods_failed > 0 THEN 10 ELSE 2,
          recent_events_normal |-> 20,
          has_pvc_issues |-> InList("pvc_issue", issues),
          has_network_issues |-> InList("network_issue", issues),
          has_resource_pressure |-> InList("resource_pressure", issues) ]

get_simulated_state(issues) ==
    LET num_nodes == 5
        num_pods == 50
        num_deployments == 10
        nodes_not_ready == IF InList("node_not_ready", issues) THEN 1 ELSE 0
        pods_failed == IF InList("pod_failure", issues) THEN 5 ELSE 0
        pods_pending == IF InList("resource_pressure", issues) THEN 3 ELSE 0
    IN  [ num_nodes |-> num_nodes,
          nodes_ready |-> num_nodes - nodes_not_ready,
          nodes_not_ready |-> nodes_not_ready,
          num_pods |-> num_pods,
          pods_running |-> num_pods - pods_failed - pods_pending,
          pods_pending |-> pods_pending,
          pods_failed |-> pods_failed,
          pods_unknown |-> 0,
          num_deployments |-> num_deployments,
          deployments_available |->
              num_deployments - (IF pods_failed > 0 THEN 1 ELSE 0),
          deployments_unavailable |-> IF pods_failed > 0 THEN 1 ELSE 0,
          cpu_usage_percent |->
              IF InList("resource_pressure", issues) THEN 80 ELSE 40,
          memory_usage_percent |->
              IF InList("resource_pressure", issues) THEN 75 ELSE 35,
          recent_events_warning |-> IF issues # <<>> THEN 10 ELSE 2,
          recent_events_normal |-> 20,
          has_pvc_issues |-> InList("pvc_issue", issues),
          has_network_issues |-> InList("network_issue", issues),
          has_resource_pressure |-> InList("resource_pressure", issues) ]

\* mutant: waiting lets a pod failure appear
execute_simulated_action_WaitAddsFault(a, issues) ==
    IF a = RESTART_FAILED_PODS /\ InList("pod_failure", issues)
    THEN [ success |-> TRUE,
           message |-> "Restarted failed pods - issue resolved",
           issues |-> ListRemove(issues, "pod_failure") ]
    ELSE IF a = UNCORDON_NODE /\ InList("node_not_ready", issues)
    THEN [ success |-> TRUE, message |-> "Uncordoned node - issue resolved",
           issues |-> ListRemove(issues, "node_not_ready") ]
    ELSE IF a = SCALE_DOWN_DEPLOYMENT /\ InList("resource_pressure", issues)
    THEN [ success |-> TRUE,
           message |-> "Scaled down deployment - resource pressure relieved",
           issues |-> ListRemove(issues, "resource_pressure") ]
    ELSE [ success |-> TRUE,
           message |-> IF a = RESTART_FAILED_PODS
                       THEN "No failed pods to restart"
                       ELSE "Executed " \o ActionName(a),
           issues |-> IF a = WAIT /\ ~InList("pod_failure", issues)
                      THEN Append(issues, "pod_failure") ELSE issues ]

\* mutant: the restart reports the issue resolved and leaves the tag
execute_simulated_action_RestartKeepsTag(a, issues) ==
    IF a = RESTART_FAILED_PODS /\ InList("pod_failure", issues)
    THEN [ success |-> TRUE,
           message |-> "Restarted failed pods - issue resolved",
           issues |-> issues ]
    ELSE IF a = UNCORDON_NODE /\ InList("node_not_ready", issues)
    THEN [ success |-> TRUE, message |-> "Uncordoned node - issue resolved",
           issues |-> ListRemove(issues, "node_not_ready") ]
    ELSE IF a = SCALE_DOWN_DEPLOYMENT /\ InList("resource_pressure", issues)
    THEN [ success |-> TRUE,
           message |-> "Scaled down deployment - resource pressure relieved",
           issues |-> ListRemove(issues, "resource_pressure") ]
    ELSE [ success |-> TRUE,
           message |-> IF a = RESTART_FAILED_PODS
                       THEN "No failed pods to restart"
                       ELSE "Executed " \o ActionName(a),
           issues |-> issues ]

\* mutant: DRAIN_NODE clears node_not_ready as UNCORDON_NODE does
execute_simulated_action_DrainAlsoClears(a, issues) ==
    IF a = RESTART_FAILED_PODS /\ InList("pod_failure", issues)
    THEN [ success |-> TRUE,
           message |-> "Restarted failed pods - issue resolved",
           issues |-> ListRemove(issues, "pod_failure") ]
    ELSE IF a \in {UNCORDON_NODE, 9} /\ InList("node_not_ready", issues)
    THEN [ success |-> TRUE, message |-> "Uncordoned node - issue resolved",
           issues |-> ListRemove(issues, "node_not_ready") ]
    ELSE IF a = SCALE_DOWN_DEPLOYMENT /\ InList("resource_pressure", issues)
    THEN [ success |-> TRUE,
           message |-> "Scaled down deployment - resource pressure relieved",
           issues |-> ListRemove(issues, "resource_pressure") ]
    ELSE [ success |-> TRUE,
           message |-> IF a = RESTART_FAILED_PODS
                       THEN "No failed pods to restart"
                       ELSE "Executed " \o ActionName(a),
           issues |-> issues ]

\* _execute_simulated_action: the result record and the fault list it leaves
execute_simulated_action(a, issues) ==
    LET executed == "Executed " \o ActionName(a)
    IN  IF a = RESTART_FAILED_PODS
        THEN IF InList("pod_failure", issues)
             THEN [ success |-> TRUE,
                    message |-> "Restarted failed pods - issue resolved",
                    issues |-> ListRemove(issues, "pod_failure") ]
             ELSE [ success |-> TRUE,
                    message |-> "No failed pods to restart",
                    issues |-> issues ]
        ELSE IF a = UNCORDON_NODE
        THEN IF InList("node_not_ready", issues)
             THEN [ success |-> TRUE,
                    message |-> "Uncordoned node - issue resolved",
                    issues |-> ListRemove(issues, "node_not_ready") ]
             ELSE [ success |-> TRUE, message |-> executed, issues |-> issues ]
        ELSE IF a = SCALE_DOWN_DEPLOYMENT
        THEN IF InList("resource_pressure", issues)
             THEN [ success |-> TRUE,
                    message |->
                        "Scaled down deployment - resource pressure relieved",
                    issues |-> ListRemove(issues, "resource_pressure") ]
             ELSE [ success |-> TRUE, message |-> executed, issues |-> issues ]
        ELSE [ success |-> TRUE, message |-> executed, issues |-> issues ]

(***************************************************************************)
(* Real-cluster mode: the external tool.  A call ends in one of four ways: *)
(* exit status 0 with a JSON listing ("ok"), a non-zero exit status        *)
(* ("nonzero"), an exception out of subprocess.run ("timeout"), or exit    *)
(* status 0 with output json.loads rejects ("malformed").  "not_called"    *)
(* marks a call the handler never reached.                                 *)
(***************************************************************************)
Outcomes == {"ok", "nonzero", "timeout", "malformed"}

NodeItems == {"True", "False"}        \* status of the node's Ready condition

PodItems == {"Running", "Pending", "Failed", "Unknown", "Succeeded"}

DeploymentItems ==
    { [availableReplicas |-> 0, replicas |-> 1],
      [availableReplicas |-> 1, replicas |-> 1] }

EventItems == {"Warning", "Normal"}

Listings(items) == UNION { [1 .. n -> items] : n \in 0 .. MaxItems }

Clusters ==
    { c \in [ nodes : Listings(NodeItems), pods : Listings(PodItems),
              deployments : Listings(DeploymentItems),
              events : Listings(EventItems) ] :
        Len(c.nodes) + Len(c.pods) + Len(c.deployments) + Len(c.events)
            <= MaxObjects }

NoCluster == [nodes |-> <<>>, pods |-> <<>>, deployments |-> <<>>, events |-> <<>>]

\* the four listings of a refresh, in call order
RefreshCommands ==
    << <<"get", "nodes", "-o", "json">>,
       <<"get", "pods", "--all-namespaces", "-o", "json">>,
       <<"get", "deployments", "--all-namespaces", "-o", "json">>,
       <<"get", "events", "--all-namespaces", "-o", "json">> >>

Raises(o) == o \in {"timeout", "malformed"}

NoCalls == [k \in 1 .. 4 |-> "not_called"]

\* the ways the four calls of one refresh can end: a call is not made once an
\* earlier one raised
RefreshOutcomes ==
    { oc \in [1 .. 4 -> Outcomes \cup {"not_called"}] :
        \A k \in 1 .. 4 :
            (oc[k] = "not_called") <=> (\E j \in 1 .. (k - 1) : Raises(oc[j])) }

\* the number of calls of a refresh that failed
BadCalls(oc) == Cardinality({k \in 1 .. 4 : oc[k] \in Outcomes \ {"ok"}})

\* mutant: the output is parsed whatever the exit status
LoadItems_IgnoresExitStatus(listing, o) == listing

\* json.loads(result.stdout) if result.returncode == 0 else {"items": []}
LoadItems(listing, o) == IF o = "ok" THEN listing ELSE <<>>

EmptyState ==
    [ num_nodes |-> 0, nodes_ready |-> 0, nodes_not_ready |-> 0,
      num_pods |-> 0, pods_running |-> 0, pods_pending |-> 0,
      pods_failed |-> 0, pods_unknown |-> 0,
      num_deployments |-> 0, deployments_available |-> 0,
      deployments_unavailable |-> 0,
      cpu_usage_percent |-> 0, memory_usage_percent |-> 0,
      recent_events_warning |-> 0, recent_events_normal |-> 0,
      has_pvc_issues |-> FALSE, has_network_issues |-> FALSE,
      has_resource_pressure |-> FALSE ]

\* the calls a refresh made, with how each ended
RefreshLog(oc) ==
    LET made == {k \in 1 .. 4 : oc[k] # "not_called"}
    IN  [k \in 1 .. Cardinality(made) |->
            [cmd |-> RefreshCommands[k], outcome |-> oc[k]]]

\* mutant: the not-ready nodes are the ready ones minus the total
get_real_cluster_state_SignFlipped(cl, oc) ==
    IF \E k \in 1 .. 4 : Raises(oc[k])
    THEN EmptyState
    ELSE
      LET nodes == LoadItems(cl.nodes, oc[1])
          pods == LoadItems(cl.pods, oc[2])
          deployments == LoadItems(cl.deployments, oc[3])
          events == LoadItems(cl.events, oc[4])
          num_nodes == Len(nodes)
          nodes_ready == CountEq(nodes, "True")
          num_pods == Len(pods)
          pods_pending == CountEq(pods, "Pending")
          num_deployments == Len(deployments)
          deployments_available ==
              Cardinality({i \in 1 .. Len(deployments) :
                  deployments[i].availableReplicas >= deployments[i].replicas})
      IN  [ num_nodes |-> num_nodes,
            nodes_ready |-> nodes_ready,
            nodes_not_ready |-> nodes_ready - num_nodes,
            num_pods |-> num_pods,
            pods_running |-> CountEq(pods, "Running"),
            pods_pending |-> pods_pending,
            pods_failed |-> CountEq(pods, "Failed"),
            pods_unknown |-> CountEq(pods, "Unknown"),
            num_deployments |-> num_deployments,
            deployments_available |-> deployments_available,
            deployments_unavailable |-> num_deployments - deployments_available,
            cpu_usage_percent |-> 50,
            memory_usage_percent |-> 50,
            recent_events_warning |-> CountEq(events, "Warning"),
            recent_events_normal |-> CountEq(events, "Normal"),
            has_pvc_issues |-> FALSE,
            has_network_issues |-> FALSE,
            has_resource_pressure |-> pods_pending > 0 ]

get_real_cluster_state(cl, oc) ==
    IF \E k \in 1 .. 4 : Raises(oc[k])
    THEN EmptyState
    ELSE
      LET nodes == LoadItems(cl.nodes, oc[1])
          pods == LoadItems(cl.pods, oc[2])
          deployments == LoadItems(cl.deployments, oc[3])
          events == LoadItems(cl.events, oc[4])
          num_nodes == Len(nodes)
          nodes_ready == CountEq(nodes, "True")
          num_pods == Len(pods)
          pods_pending == CountEq(pods, "Pending")
          num_deployments == Len(deployments)
          deployments_available ==
              Cardinality({i \in 1 .. Len(deployments) :
                  deployments[i].availableReplicas >= deployments[i].replicas})
      IN  [ num_nodes |-> num_nodes,
            nodes_ready |-> nodes_ready,
            nodes_not_ready |-> num_nodes - nodes_ready,
            num_pods |-> num_pods,
            pods_running |-> CountEq(pods, "Running"),
            pods_pending |-> pods_pending,
            pods_failed |-> CountEq(pods, "Failed"),
            pods_unknown |-> CountEq(pods, "Unknown"),
            num_deployments |-> num_deployments,
            deployments_available |-> deployments_available,
            deployments_unavailable |-> num_deployments - deployments_available,
            cpu_usage_percent |-> 50,
            memory_usage_percent |-> 50,
            recent_events_warning |-> CountEq(events, "Warning"),
            recent_events_normal |-> CountEq(events, "Normal"),
            has_pvc_issues |-> FALSE,
            has_network_issues |-> FALSE,
            has_resource_pressure |-> pods_pending > 0 ]

\* mutant: a timed-out query is reported as a success
execute_real_action_TimeoutSilent(a, o) ==
    LET cmd == IF a = GET_NODES THEN <<"get", "nodes">>
               ELSE IF a = GET_PODS THEN <<"get", "pods", "--all-namespaces">>
               ELSE <<"get", "events", "--all-namespaces",
                      "--sort-by=.lastTimestamp">>
        retrieved == IF a = GET_NODES THEN "Retrieved node information"
                     ELSE IF a = GET_PODS THEN "Retrieved pod information"
                     ELSE "Retrieved cluster events"
    IN  IF a \in {GET_NODES, GET_PODS, GET_EVENTS}
        THEN [ success |-> o \in {"ok", "malformed", "timeout"},
               message |-> retrieved,
               data |-> IF o = "timeout" THEN "None" ELSE "stdout",
               log |-> << [cmd |-> cmd, outcome |-> o] >> ]
        ELSE IF a = WAIT
        THEN [ success |-> TRUE, message |-> "Waiting...",
               data |-> "None", log |-> <<>> ]
        ELSE [ success |-> TRUE,
               message |-> "Would execute: " \o ActionName(a)
                           \o " (dry-run mode for safety)",
               data |-> "None", log |-> <<>> ]

\* mutant: RESTART_FAILED_PODS deletes the pods for real
execute_real_action_RestartDeletes(a, o) ==
    LET cmd == IF a = GET_NODES THEN <<"get", "nodes">>
               ELSE IF a = GET_PODS THEN <<"get", "pods", "--all-namespaces">>
               ELSE <<"get", "events", "--all-namespaces",
                      "--sort-by=.lastTimestamp">>
        retrieved == IF a = GET_NODES THEN "Retrieved node information"
                     ELSE IF a = GET_PODS THEN "Retrieved pod information"
                     ELSE "Retrieved cluster events"
    IN  IF a \in {GET_NODES, GET_PODS, GET_EVENTS}
        THEN [ success |-> o \in {"ok", "malformed"},
               message |-> IF o = "timeout" THEN "Error: timed out"
                           ELSE retrieved,
               data |-> IF o = "timeout" THEN "None" ELSE "stdout",
               log |-> << [cmd |-> cmd, outcome |-> o] >> ]
        ELSE IF a = WAIT
        THEN [ success |-> TRUE, message |-> "Waiting...",
               data |-> "None", log |-> <<>> ]
        ELSE [ success |-> TRUE,
               message |-> "Would execute: " \o ActionName(a)
                           \o " (dry-run mode for safety)",
               data |-> "None",
               log |-> IF a = RESTART_FAILED_PODS
                       THEN << [cmd |-> <<"delete", "pods", "--all-namespaces">>,
                                outcome |-> "ok"] >>
                       ELSE <<>> ]

\* _execute_real_action: the result record and the calls it made
execute_real_action(a, o) ==
    LET cmd == IF a = GET_NODES THEN <<"get", "nodes">>
               ELSE IF a = GET_PODS THEN <<"get", "pods", "--all-namespaces">>
               ELSE <<"get", "events", "--all-namespaces",
                      "--sort-by=.lastTimestamp">>
        retrieved == IF a = GET_NODES THEN "Retrieved node information"
                     ELSE IF a = GET_PODS THEN "Retrieved pod information"
                     ELSE "Retrieved cluster events"
    IN  IF a \in {GET_NODES, GET_PODS, GET_EVENTS}
        THEN [ success |-> o \in {"ok", "malformed"},
               message |-> IF o = "timeout" THEN "Error: timed out"
                           ELSE retrieved,
               data |-> IF o = "timeout" THEN "None" ELSE "stdout",
               log |-> << [cmd |-> cmd, outcome |-> o] >> ]
        ELSE IF a = WAIT
        THEN [ success |-> TRUE, message |-> "Waiting...",
               data |-> "None", log |-> <<>> ]
        ELSE [ success |-> TRUE,
               message |-> "Would execute: " \o ActionName(a)
                           \o " (dry-run mode for safety)",
               data |-> "None", log |-> <<>> ]

(***************************************************************************)
(* Reward, termination, issue list                                         *)
(***************************************************************************)
\* mutant: the constant step penalty is left out
calculate_reward_NoStepPenalty(prev, curr) ==
    IF prev = <<>> THEN 0
    ELSE
      LET p == prev[1]
      IN  (IF curr.pods_failed < p.pods_failed
           THEN 100 * (p.pods_failed - curr.pods_failed) ELSE 0)
        + (IF curr.pods_pending < p.pods_pending
           THEN 50 * (p.pods_pending - curr.pods_pending) ELSE 0)
        + (IF curr.nodes_not_ready < p.nodes_not_ready
           THEN 200 * (p.nodes_not_ready - curr.nodes_not_ready) ELSE 0)
        - (IF curr.pods_failed > p.pods_failed
           THEN 150 * (curr.pods_failed - p.pods_failed) ELSE 0)
        - (IF curr.nodes_not_ready > p.nodes_not_ready
           THEN 250 * (curr.nodes_not_ready - p.nodes_not_ready) ELSE 0)
        + (IF curr.cpu_usage_percent < p.cpu_usage_percent
              /\ p.cpu_usage_percent > 70 THEN 20 ELSE 0)
        + (IF curr.pods_failed = 0 /\ curr.nodes_not_ready = 0
              /\ curr.pods_pending = 0 THEN 50 ELSE 0)

\* mutant: a failed pod more costs 10 as a failed pod fewer earns, not 15
calculate_reward_LighterPenalty(prev, curr) ==
    IF prev = <<>> THEN 0
    ELSE
      LET p == prev[1]
      IN  (IF curr.pods_failed < p.pods_failed
           THEN 100 * (p.pods_failed - curr.pods_failed) ELSE 0)
        + (IF curr.pods_pending < p.pods_pending
           THEN 50 * (p.pods_pending - curr.pods_pending) ELSE 0)
        + (IF curr.nodes_not_ready < p.nodes_not_ready
           THEN 200 * (p.nodes_not_ready - curr.nodes_not_ready) ELSE 0)
        - (IF curr.pods_failed > p.pods_failed
           THEN 100 * (curr.pods_failed - p.pods_failed) ELSE 0)
        - (IF curr.nodes_not_ready > p.nodes_not_ready
           THEN 250 * (curr.nodes_not_ready - p.nodes_not_ready) ELSE 0)
        + (IF curr.cpu_usage_percent < p.cpu_usage_percent
              /\ p.cpu_usage_percent > 70 THEN 20 ELSE 0)
        - 1
        + (IF curr.pods_failed = 0 /\ curr.nodes_not_ready = 0
              /\ curr.pods_pending = 0 THEN 50 ELSE 0)

\* _calculate_reward, in tenths; prev is the Optional previous state
calculate_reward(prev, curr) ==
    IF prev = <<>> THEN 0
    ELSE
      LET p == prev[1]
          r1 == IF curr.pods_failed < p.pods_failed
                THEN 100 * (p.pods_failed - curr.pods_failed) ELSE 0
          r2 == IF curr.pods_pending < p.pods_pending
                THEN 50 * (p.pods_pending - curr.pods_pending) ELSE 0
          r3 == IF curr.nodes_not_ready < p.nodes_not_ready
                THEN 200 * (p.nodes_not_ready - curr.nodes_not_ready) ELSE 0
          r4 == IF curr.pods_failed > p.pods_failed
                THEN 150 * (curr.pods_failed - p.pods_failed) ELSE 0
          r5 == IF curr.nodes_not_ready > p.nodes_not_ready
                THEN 250 * (curr.nodes_not_ready - p.nodes_not_ready) ELSE 0
          r6 == IF curr.cpu_usage_percent < p.cpu_usage_percent
                   /\ p.cpu_usage_percent > 70
                THEN 20 ELSE 0
          r7 == IF curr.pods_failed = 0 /\ curr.nodes_not_ready = 0
                   /\ curr.pods_pending = 0
                THEN 50 ELSE 0
      IN  r1 + r2 + r3 - r4 - r5 + r6 - 1 + r7

\* mutant: a PVC issue does not keep the episode open
check_terminated_IgnoresPvc(st) ==
    IF st = <<>> THEN FALSE
    ELSE \/ /\ st[1].pods_failed = 0 /\ st[1].nodes_not_ready = 0
            /\ ~st[1].has_network_issues
            /\ ~st[1].has_resource_pressure
         \/ st[1].nodes_ready = 0

\* mutant: the catastrophic-failure test is left out
check_terminated_NoCatastrophe(st) ==
    IF st = <<>> THEN FALSE
    ELSE st[1].pods_failed = 0 /\ st[1].nodes_not_ready = 0
         /\ ~st[1].has_pvc_issues /\ ~st[1].has_network_issues
         /\ ~st[1].has_resource_pressure

\* _check_terminated on the Optional current state
check_terminated(st) ==
    IF st = <<>> THEN FALSE
    ELSE IF st[1].nodes_ready = 0 THEN TRUE
    ELSE IF st[1].pods_failed = 0 /\ st[1].nodes_not_ready = 0
            /\ ~st[1].has_pvc_issues /\ ~st[1].has_network_issues
            /\ ~st[1].has_resource_pressure
         THEN TRUE
    ELSE FALSE

\* mutant: = for >=
is_truncated_OnlyAt(step, limit) == step = limit

\* mutant: > for >=
is_truncated_Late(step, limit) == step > limit

\* step: truncated = self.current_step >= self.max_steps
is_truncated(step, limit) == step >= limit

\* mutant: the issue list is derived from the state in simulation mode too
get_current_issues_FromState(sim, issues, st) ==
    IF st = <<>> THEN <<>>
    ELSE (IF st[1].nodes_not_ready > 0 THEN <<"node_not_ready">> ELSE <<>>)
      \o (IF st[1].pods_failed > 0 THEN <<"pod_failure">> ELSE <<>>)
      \o (IF st[1].has_resource_pressure THEN <<"resource_pressure">> ELSE <<>>)

\* _get_current_issues
get_current_issues(sim, issues, st) ==
    IF sim THEN issues
    ELSE IF st = <<>> THEN <<>>
    ELSE (IF st[1].nodes_not_ready > 0
          THEN <<ToString(st[1].nodes_not_ready) \o " node(s) not ready">>
          ELSE <<>>)
      \o (IF st[1].pods_failed > 0
          THEN <<ToString(st[1].pods_failed) \o " pod(s) failed">> ELSE <<>>)
      \o (IF st[1].pods_pending > 0
          THEN <<ToString(st[1].pods_pending) \o " pod(s) pending">> ELSE <<>>)
      \o (IF st[1].has_resource_pressure
          THEN <<"Resource pressure detected">> ELSE <<>>)

(***************************************************************************)
(* The environment: construction, reset, step                              *)
(***************************************************************************)
\* _get_cluster_state
get_cluster_state(sim, issues, cl, oc) ==
    IF sim THEN get_simulated_state(issues) ELSE get_real_cluster_state(cl, oc)

\* _execute_action: result fields, the fault list left, the calls made
execute_action(sim, a, issues, o) ==
    IF sim
    THEN LET r == execute_simulated_action(a, issues)
         IN  [ success |-> r.success, message |-> r.message, data |-> "None",
               issues |-> r.issues, log |-> <<>> ]
    ELSE LET r == execute_real_action(a, o)
         IN  [ success |-> r.success, message |-> r.message, data |-> r.data,
               issues |-> issues, log |-> r.log ]

\* the values np_random.random() can return at the five draws of a reset:
\* for each draw, just below its threshold and exactly at it
Draws ==
    { <<a, b, c, d, e>> : a \in {29, 30}, b \in {19, 20}, c \in {19, 20},
                          d \in {9, 10}, e \in {9, 10} }

NoDraws == <<0, 0, 0, 0, 0>>

\* how the external call of an action can end (none in simulation mode, and
\* none for an action that makes no call)
ActionOutcomes(sim, a) ==
    IF sim \/ a \notin {GET_NODES, GET_PODS, GET_EVENTS}
    THEN {"not_called"} ELSE Outcomes

\* the refresh outcomes explored: at most MaxBadCalls calls of a handler fail
RefreshExplored ==
    UNION { IF BadCalls(oc) <= MaxBadCalls THEN {oc} ELSE {} :
            oc \in RefreshOutcomes }

\* the same after an action whose own call failed
RefreshExploredLess ==
    UNION { IF BadCalls(oc) + 1 <= MaxBadCalls THEN {oc} ELSE {} :
            oc \in RefreshOutcomes }

\* the outcomes explored for the refresh that follows an action whose call
\* ended in o
RefreshAfter(sim, o) ==
    IF sim THEN {NoCalls}
    ELSE IF o \in {"ok", "not_called"} THEN RefreshExplored
    ELSE RefreshExploredLess

\* ClusterEnv.__init__ for the given mode
Construct(sim) ==
    /\ simulation_mode = sim
    /\ max_steps = MaxStepsCfg
    /\ current_step = 0
    /\ total_reward = 0
    /\ state = <<>>
    /\ action_history = <<>>
    /\ sim_issues = <<>>
    /\ cluster \in (IF sim THEN {NoCluster} ELSE Clusters)
    /\ kubectl_log = <<>>
    /\ last_call = "init"
    /\ prev_state = <<>>
    /\ obs = <<>>
    /\ reward = 0
    /\ terminated = FALSE
    /\ truncated = FALSE
    /\ info = [step |-> 0, issues |-> <<>>]

Init == \E sim \in BOOLEAN : Construct(sim)

\* mutant: reset keeps the action history of the episode before
Reset_KeepsHistory ==
    \E draws \in (IF simulation_mode THEN Draws ELSE {NoDraws}),
       oc \in RefreshAfter(simulation_mode, "not_called") :
    \E issues \in {IF simulation_mode THEN reset_simulation(draws)
                   ELSE sim_issues} :
    \E new \in {get_cluster_state(simulation_mode, issues, cluster, oc)} :
          /\ current_step' = 0
          /\ total_reward' = 0
          /\ action_history' = action_history
          /\ sim_issues' = issues
          /\ state' = <<new>>
          /\ obs' = to_observation(new)
          /\ info' = [ step |-> 0,
                       issues |-> get_current_issues(simulation_mode, issues,
                                                     <<new>>) ]
          /\ kubectl_log' = RefreshLog(oc)
          /\ last_call' = "reset"
          /\ prev_state' = <<>>
          /\ reward' = 0
          /\ terminated' = FALSE
          /\ truncated' = FALSE
          /\ UNCHANGED <<simulation_mode, max_steps, cluster>>

\* ClusterEnv.reset
Reset ==
    \E draws \in (IF simulation_mode THEN Draws ELSE {NoDraws}),
       oc \in RefreshAfter(simulation_mode, "not_called") :
    \E issues \in {IF simulation_mode THEN reset_simulation(draws)
                   ELSE sim_issues} :
    \E new \in {get_cluster_state(simulation_mode, issues, cluster, oc)} :
          /\ current_step' = 0
          /\ total_reward' = 0
          /\ action_history' = <<>>
          /\ sim_issues' = issues
          /\ state' = <<new>>
          /\ obs' = to_observation(new)
          /\ info' = [ step |-> 0,
                       issues |-> get_current_issues(simulation_mode, issues,
                                                     <<new>>) ]
          /\ kubectl_log' = RefreshLog(oc)
          /\ last_call' = "reset"
          /\ prev_state' = <<>>
          /\ reward' = 0
          /\ terminated' = FALSE
          /\ truncated' = FALSE
          /\ UNCHANGED <<simulation_mode, max_steps, cluster>>

\* ClusterEnv.step(a), explored while fewer than cap steps were taken
StepOn(acts, cap) ==
    /\ current_step < cap
    /\ \E a \in acts :
       \E o \in ActionOutcomes(simulation_mode, a) :
       \E oc \in RefreshAfter(simulation_mode, o) :
       \E action_result \in {execute_action(simulation_mode, a, sim_issues, o)} :
       \E new \in {get_cluster_state(simulation_mode, action_result.issues,
                                     cluster, oc)} :
       \E r \in {calculate_reward(state, new)} :
          /\ current_step' = current_step + 1
          /\ action_history' = Append(action_history, a)
          /\ sim_issues' = action_result.issues
          /\ prev_state' = state
          /\ state' = <<new>>
          /\ reward' = r
          /\ total_reward' = total_reward + r
          /\ terminated' = check_terminated(<<new>>)
          /\ truncated' = is_truncated(current_step + 1, max_steps)
          /\ obs' = to_observation(new)
          /\ info' = [ step |-> current_step + 1,
                       action |-> ActionName(a),
                       action_result |->
                           [ success |-> action_result.success,
                             message |-> action_result.message,
                             data |-> action_result.data ],
                       total_reward |-> total_reward + r,
                       issues |-> get_current_issues(simulation_mode,
                                      action_result.issues, <<new>>) ]
          /\ kubectl_log' = action_result.log \o RefreshLog(oc)
          /\ last_call' = "step"
          /\ UNCHANGED <<simulation_mode, max_steps, cluster>>

\* a step with any action of the action space
Step == StepOn(Actions, WideCap)

Next == Reset \/ Step

\* both modes, every action
Spec == Init /\ [][Next]_vars

\* simulation mode, every action
InitSim == Construct(TRUE)

SpecSim == InitSim /\ [][Next]_vars

\* real-cluster mode, every action
InitReal == Construct(FALSE)

SpecReal == InitReal /\ [][Next]_vars

\* the three actions that change the fault list, one diagnostic action and
\* the no-op: in simulation mode the other ten actions differ from GET_NODES
\* by their name only
CoreActions ==
    {GET_NODES, RESTART_FAILED_PODS, SCALE_DOWN_DEPLOYMENT, UNCORDON_NODE, WAIT}

StepCore == StepOn(CoreActions, DeepCap)

NextDeep == Reset \/ StepCore

\* simulation mode, longer episodes of core actions
SpecDeep == InitSim /\ [][NextDeep]_vars

(***************************************************************************)
(* step with an index outside the action space                             *)
(***************************************************************************)
\* the indices tried: the nearest ones on either side of the action space
InvalidActions == {-1, NUM_ACTIONS}

\* mutant: the index is validated before the episode context is touched
StepInvalid_ValidatedFirst(cap) ==
    /\ current_step < cap
    /\ kubectl_log' = <<>>
    /\ last_call' = "step_raised"
    /\ UNCHANGED <<simulation_mode, max_steps, current_step, action_history,
                   total_reward, state, sim_issues, cluster, prev_state, obs,
                   reward, terminated, truncated, info>>

\* ClusterEnv.step(a) for an a outside the action space: the counter and the
\* history are updated, then ClusterAction(a) raises ValueError and nothing is
\* returned
StepInvalid(cap) ==
    /\ current_step < cap
    /\ \E a \in InvalidActions :
          /\ current_step' = current_step + 1
          /\ action_history' = Append(action_history, a)
          /\ kubectl_log' = <<>>
          /\ last_call' = "step_raised"
          /\ UNCHANGED <<simulation_mode, max_steps, total_reward, state,
                         sim_issues, cluster, prev_state, obs, reward,
                         terminated, truncated, info>>

StepRaises == StepInvalid(DeepCap)

NextErr == Reset \/ StepCore \/ StepRaises

\* simulation mode, episodes of core actions and of invalid indices
SpecErr == InitSim /\ [][NextErr]_vars

(***************************************************************************)
(* The observation encoder alone, on ClusterState values drawn from        *)
(* bounded sets: totals 0, 1 and MaxTotal, each sub-count none, one or all *)
(* of its total, gauges and event counters at their ends.                  *)
(***************************************************************************)
Pick(sel, total) ==
    IF sel = "none" THEN 0 ELSE IF sel = "one" THEN (IF total >= 1 THEN 1 ELSE 0)
    ELSE total

ObsStates ==
    { [ num_nodes |-> tn,
        nodes_ready |-> Pick(up, tn),
        nodes_not_ready |-> Pick(down, tn),
        num_pods |-> tp,
        pods_running |-> Pick(up, tp),
        pods_pending |-> Pick(down, tp),
        pods_failed |-> Pick(down, tp),
        pods_unknown |-> Pick(up, tp),
        num_deployments |-> td,
        deployments_available |-> Pick(up, td),
        deployments_unavailable |-> Pick(down, td),
        cpu_usage_percent |-> g,
        memory_usage_percent |-> 100 - g,
        recent_events_warning |-> ev,
        recent_events_normal |-> MaxTotal - ev,
        has_pvc_issues |-> f[1],
        has_network_issues |-> f[2],
        has_resource_pressure |-> f[3] ] :
      tn \in {0, 1, MaxTotal}, tp \in {0, 1, MaxTotal}, td \in {0, 1, MaxTotal},
      up \in {"none", "one", "all"}, down \in {"none", "one", "all"},
      g \in {0, 50, 100}, ev \in {0, 1, MaxTotal},
      f \in [1 .. 3 -> BOOLEAN] }

InitObs ==
    /\ simulation_mode = TRUE
    /\ max_steps = MaxStepsCfg
    /\ current_step = 0
    /\ total_reward = 0
    /\ state \in {<<s>> : s \in ObsStates}
    /\ action_history = <<>>
    /\ sim_issues = <<>>
    /\ cluster = NoCluster
    /\ kubectl_log = <<>>
    /\ last_call = "init"
    /\ prev_state = <<>>
    /\ obs = <<>>
    /\ reward = 0
    /\ terminated = FALSE
    /\ truncated = FALSE
    /\ info = [step |-> 0, issues |-> <<>>]

\* state.to_observation()
Encode ==
    /\ last_call = "init"
    /\ obs' = to_observation(state[1])
    /\ last_call' = "to_observation"
    /\ UNCHANGED <<simulation_mode, max_steps, current_step, total_reward,
                   state, action_history, sim_issues, cluster, kubectl_log,
                   prev_state, reward, terminated, truncated, info>>

NextObs == Encode

SpecObs == InitObs /\ [][NextObs]_vars

(***************************************************************************)
(* Properties                                                              *)
(***************************************************************************)
\* the action of the step that returned last
LastAction == action_history[Len(action_history)]

Pos(x) == IF x > 0 THEN x ELSE 0

FullyHealthy(c) ==
    c.pods_failed = 0 /\ c.nodes_not_ready = 0 /\ c.pods_pending = 0

\* C1 as claimed: in simulation mode the reward of the step that follows a
\* reset is exactly 0.0, whatever the faults and the action.
C1_FirstStepRewardIsZero ==
    [][ (simulation_mode /\ last_call = "reset" /\ last_call' = "step")
            => reward' = 0 ]_vars

\* C1 amended: in simulation mode a step's reward is exactly 0.0 if and only
\* if the environment had no previous state (step called before any reset).
\* The step that follows a reset has reset's state as its previous state and
\* is rewarded like any other: never 0.0, at least -0.1, and when the action
\* removes no fault it is 4.9 in a fully healthy state and -0.1 otherwise.
C1_RewardZeroOnlyWithoutPreviousState ==
    [][ (simulation_mode /\ last_call' = "step") =>
          /\ (reward' = 0) <=> (state = <<>>)
          /\ (last_call = "reset") =>
                /\ state # <<>>
                /\ reward' # 0
                /\ reward' >= -1
                /\ (sim_issues' = sim_issues) =>
                      reward' = IF FullyHealthy(state'[1]) THEN 49 ELSE -1
      ]_vars

\* C1 witness: the first step after a reset returned reward -0.1
C1_Witness ==
    /\ simulation_mode /\ last_call = "step" /\ current_step = 1
    /\ prev_state # <<>> /\ reward = -1

\* C2: the terminated flag of a step is true exactly when the state that step
\* computed has no ready node, or has no failed pod, no not-ready node and
\* none of the three issue flags.
C2_TerminatedIff ==
    (last_call = "step") =>
        terminated =
            ( \/ state[1].nodes_ready = 0
              \/ /\ state[1].pods_failed = 0
                 /\ state[1].nodes_not_ready = 0
                 /\ ~state[1].has_pvc_issues
                 /\ ~state[1].has_network_issues
                 /\ ~state[1].has_resource_pressure )

\* C2 witness: a step terminated with no ready node although a pod is failed
C2_Witness ==
    /\ last_call = "step" /\ terminated
    /\ state[1].nodes_ready = 0 /\ state[1].pods_failed > 0

\* C3: with max_steps >= 1 the truncated flag of a step is false while the
\* step index is below max_steps and true when it equals max_steps (and
\* beyond), whatever the health of the cluster and the terminated flag.
C3_TruncatedAtMaxSteps ==
    (last_call = "step" /\ max_steps >= 1) =>
        /\ (current_step < max_steps) => ~truncated
        /\ (current_step = max_steps) => truncated
        /\ (current_step > max_steps) => truncated

\* C3 witness: the step whose index is max_steps is truncated and terminated
C3_Witness ==
    /\ last_call = "step" /\ current_step = max_steps
    /\ truncated /\ terminated

\* C4: in simulation mode RESTART_FAILED_PODS with pod_failure present removes
\* it and the state of that step has pods_failed = 0; with pod_failure absent
\* it leaves the fault list unchanged; and once pod_failure is absent every
\* later step of the episode shows pods_failed = 0.
C4_RestartClearsPodFailure ==
    [][ (simulation_mode /\ last_call' = "step") =>
          LET a == action_history'[Len(action_history')]
              had == InList("pod_failure", sim_issues)
          IN  /\ (a = RESTART_FAILED_PODS /\ had) =>
                    /\ ~InList("pod_failure", sim_issues')
                    /\ state'[1].pods_failed = 0
              /\ (a = RESTART_FAILED_PODS /\ ~had) => sim_issues' = sim_issues
              /\ ~had => /\ ~InList("pod_failure", sim_issues')
                         /\ state'[1].pods_failed = 0
      ]_vars

\* C4 witness: the first step restarted the failed pods (it earned the 50.0)
\* and a later step still shows pods_failed = 0
C4_Witness ==
    /\ simulation_mode /\ last_call = "step" /\ current_step >= 2
    /\ action_history[1] = RESTART_FAILED_PODS
    /\ info.total_reward >= 490
    /\ state[1].pods_failed = 0

\* the tag an action removes ("none" for the twelve others)
C5_Target(a) ==
    IF a = RESTART_FAILED_PODS THEN "pod_failure"
    ELSE IF a = UNCORDON_NODE THEN "node_not_ready"
    ELSE IF a = SCALE_DOWN_DEPLOYMENT THEN "resource_pressure"
    ELSE "none"

C5_NoDuplicates(list) ==
    \A i, j \in 1 .. Len(list) : list[i] = list[j] => i = j

\* C5: in simulation mode a step changes the fault list only by removing the
\* tag its action targets (no tag for the twelve other actions), and the list
\* never holds a tag twice; so it only shrinks between resets.
C5_FaultSetOnlyShrinksByMatchingAction ==
    [][ simulation_mode =>
          /\ C5_NoDuplicates(sim_issues')
          /\ (last_call' = "step") =>
                LET tag == C5_Target(action_history'[Len(action_history')])
                IN  sim_issues' = SelectSeq(sim_issues, LAMBDA t : t # tag)
      ]_vars

\* C5 witness: UNCORDON_NODE removed node_not_ready (it earned the 20.0) and
\* left pod_failure in the list
C5_Witness ==
    /\ simulation_mode /\ last_call = "step"
    /\ LastAction = UNCORDON_NODE
    /\ reward >= 199
    /\ InList("pod_failure", sim_issues)
    /\ ~InList("node_not_ready", sim_issues)

\* C6: with a previous state, the reward of a step is the sum of all terms:
\* +10 per failed pod fewer, -15 per failed pod more, +5 per pending pod
\* fewer, +20 per not-ready node fewer, -25 per not-ready node more, +2.0 when
\* CPU usage fell from above 70, -0.1 always, +5.0 when the new state has no
\* failed pod, no not-ready node and no pending pod; 5 failed pods -> 0 with
\* nothing else changed and nothing else wrong gives 54.9.
C6_RewardIsSumOfTerms ==
    (last_call = "step" /\ prev_state # <<>>) =>
        LET p == prev_state[1]
            c == state[1]
        IN  /\ reward =
                  10 * 10 * Pos(p.pods_failed - c.pods_failed)
                  - 15 * 10 * Pos(c.pods_failed - p.pods_failed)
                  + 5 * 10 * Pos(p.pods_pending - c.pods_pending)
                  + 20 * 10 * Pos(p.nodes_not_ready - c.nodes_not_ready)
                  - 25 * 10 * Pos(c.nodes_not_ready - p.nodes_not_ready)
                  + (IF c.cpu_usage_percent < p.cpu_usage_percent
                        /\ p.cpu_usage_percent > 70 THEN 20 ELSE 0)
                  - 1
                  + (IF FullyHealthy(c) THEN 50 ELSE 0)
            /\ ( /\ p.pods_failed = 5 /\ c.pods_failed = 0
                 /\ p.nodes_not_ready = 0 /\ c.nodes_not_ready = 0
                 /\ p.pods_pending = 0 /\ c.pods_pending = 0
                 /\ c.cpu_usage_percent = p.cpu_usage_percent )
               => reward = 549

\* C6 witness: the step 5 failed pods -> 0 with nothing else wrong
C6_Witness ==
    /\ last_call = "step" /\ prev_state # <<>>
    /\ prev_state[1].pods_failed = 5 /\ state[1].pods_failed = 0
    /\ prev_state[1].nodes_not_ready = 0 /\ FullyHealthy(state[1])
    /\ prev_state[1].pods_pending = 0
    /\ reward = 549

\* an observation entry n/d lies in [0,1]
InUnit(q) == q[2] > 0 /\ 0 <= q[1] /\ q[1] <= q[2]

\* C7 as claimed: for a ClusterState with non-negative counts, sub-counts not
\* above their totals and gauges in [0,100], to_observation returns 18
\* entries, every one in [0,1] except slots 0 and 3, which are non-negative;
\* a category whose total is 0 yields ratio 0.
C7_ObservationInUnitRange ==
    (last_call = "to_observation") =>
        /\ Len(obs) = OBS_DIM
        /\ \A i \in (1 .. OBS_DIM) \ {1, 4} : InUnit(obs[i])
        /\ obs[1][1] >= 0 /\ obs[4][1] >= 0
        /\ (state[1].num_nodes = 0) => obs[2][1] = 0 /\ obs[3][1] = 0
        /\ (state[1].num_pods = 0) => \A i \in 5 .. 8 : obs[i][1] = 0
        /\ (state[1].num_deployments = 0) => obs[10][1] = 0 /\ obs[11][1] = 0

\* the refresh calls among the calls of the last handler
C8_RefreshCalls == SelectSeq(kubectl_log, LAMBDA e : e.cmd[Len(e.cmd)] = "json")

\* the listing the k-th refresh call asked for
C8_Listing(k) ==
    IF k = 1 THEN cluster.nodes ELSE IF k = 2 THEN cluster.pods
    ELSE IF k = 3 THEN cluster.deployments ELSE cluster.events

\* the objects the state counts from the k-th listing
C8_Counted(k) ==
    IF k = 1 THEN state[1].num_nodes ELSE IF k = 2 THEN state[1].num_pods
    ELSE IF k = 3 THEN state[1].num_deployments
    ELSE state[1].recent_events_warning + state[1].recent_events_normal

\* C8 as claimed: in real-cluster mode, when any call of a refresh fails
\* (non-zero exit, timeout, malformed JSON) the resulting state is all-zero.
C8_AnyFailureGivesZeroState ==
    ( /\ ~simulation_mode /\ last_call \in {"reset", "step"}
      /\ \E i \in 1 .. Len(C8_RefreshCalls) : C8_RefreshCalls[i].outcome # "ok" )
        => state[1] = EmptyState

\* C8 amended: in real-cluster mode, when a call of a refresh raises (timeout)
\* or exits 0 with output that is not JSON, the resulting state is all-zero;
\* a call that exits non-zero only makes its own listing empty: its counts
\* are 0, the other listings are counted in full and both gauges are 50.
C8_RaiseGivesZeroStateNonZeroExitEmptyListing ==
    (~simulation_mode /\ last_call \in {"reset", "step"}) =>
        LET calls == C8_RefreshCalls
        IN  IF \E i \in 1 .. Len(calls) : Raises(calls[i].outcome)
            THEN state[1] = EmptyState
            ELSE /\ Len(calls) = 4
                 /\ state[1].cpu_usage_percent = 50
                 /\ state[1].memory_usage_percent = 50
                 /\ \A k \in 1 .. 4 :
                       C8_Counted(k) = IF calls[k].outcome = "ok"
                                       THEN Len(C8_Listing(k)) ELSE 0

\* C8 witness: the nodes listing exited non-zero and the state still counts
\* the pods
C8_Witness ==
    /\ ~simulation_mode /\ last_call \in {"reset", "step"}
    /\ Len(C8_RefreshCalls) = 4
    /\ C8_RefreshCalls[1].outcome = "nonzero"
    /\ state[1].num_nodes = 0 /\ state[1].num_pods > 0
    /\ Len(cluster.nodes) > 0

\* C9: in simulation mode the issue list returned by reset and by step is the
\* fault list as it is after the call, so it is empty exactly when no fault
\* is active (when the state reports the 2 warning events of a clean cluster).
C9_IssueListIsFaultSet ==
    (simulation_mode /\ last_call \in {"reset", "step"}) =>
        /\ info.issues = sim_issues
        /\ (info.issues = <<>>) <=> (sim_issues = <<>>)
        /\ (info.issues = <<>>) <=> (state[1].recent_events_warning = 2)

\* C9 witness: a step removed the last fault and returned an empty issue list
C9_Witness ==
    /\ simulation_mode /\ last_call = "step"
    /\ info.issues = <<>> /\ reward >= 199

\* the messages that report an action as carried out
C10_DoneMessages(a) ==
    { "Executed " \o ActionName(a),
      "Restarted failed pods - issue resolved",
      "Uncordoned node - issue resolved",
      "Scaled down deployment - resource pressure relieved" }

\* C10: in simulation mode every action returns success with a non-empty
\* message, and a remediation action whose target tag is absent returns
\* success with a message that says nothing was done.
C10_NoOpMessageWhenTargetAbsent ==
    [][ (simulation_mode /\ last_call' = "step") =>
          LET a == action_history'[Len(action_history')]
              res == info'.action_result
          IN  /\ res.success /\ res.message # ""
              /\ ( /\ a \in {RESTART_FAILED_PODS, UNCORDON_NODE,
                             SCALE_DOWN_DEPLOYMENT}
                   /\ ~InList(C5_Target(a), sim_issues) )
                 => res.message \notin C10_DoneMessages(a)
      ]_vars

\* the set of tags of a fault list
TagSet(list) == {list[i] : i \in 1 .. Len(list)}

\* C11: in simulation mode the state is the fixed function of the fault set:
\* 5 nodes, 1 not ready iff node_not_ready; 50 pods, 5 failed iff pod_failure,
\* 3 pending iff resource_pressure, 0 unknown, the rest running; 10
\* deployments, 1 unavailable iff a pod is failed; CPU/memory 80/75 iff
\* resource_pressure else 40/35; 10 warning events iff a fault is active else
\* 2; 20 normal events; the three flags are membership of their tags.
C11_StateIsFunctionOfFaultSet ==
    (simulation_mode /\ last_call \in {"reset", "step"}) =>
        LET f == TagSet(sim_issues)
            c == state[1]
            nnr == IF "node_not_ready" \in f THEN 1 ELSE 0
            pf == IF "pod_failure" \in f THEN 5 ELSE 0
            pp == IF "resource_pressure" \in f THEN 3 ELSE 0
        IN  /\ c.num_nodes = 5 /\ c.nodes_not_ready = nnr
            /\ c.nodes_ready = 5 - nnr
            /\ c.num_pods = 50 /\ c.pods_failed = pf /\ c.pods_pending = pp
            /\ c.pods_unknown = 0 /\ c.pods_running = 50 - pf - pp
            /\ c.num_deployments = 10
            /\ c.deployments_unavailable = (IF pf > 0 THEN 1 ELSE 0)
            /\ c.deployments_available = 10 - c.deployments_unavailable
            /\ c.cpu_usage_percent = (IF pp > 0 THEN 80 ELSE 40)
            /\ c.memory_usage_percent = (IF pp > 0 THEN 75 ELSE 35)
            /\ c.recent_events_warning = (IF f = {} THEN 2 ELSE 10)
            /\ c.recent_events_normal = 20
            /\ c.has_pvc_issues = ("pvc_issue" \in f)
            /\ c.has_network_issues = ("network_issue" \in f)
            /\ c.has_resource_pressure = ("resource_pressure" \in f)

\* C11 witness: a step left resource_pressure and pvc_issue only: 47 pods
\* running, 10 deployments available, 10 warning events
C11_Witness ==
    /\ simulation_mode /\ last_call = "step"
    /\ TagSet(sim_issues) = {"resource_pressure", "pvc_issue"}
    /\ state[1].pods_running = 47 /\ state[1].deployments_available = 10
    /\ state[1].recent_events_warning = 10
    /\ prev_state # <<>> /\ prev_state[1].pods_failed = 5

\* C12: every ClusterState the environment holds, in both modes and for any
\* listing and call outcome, has nodes_ready <= num_nodes, pods_running <=
\* num_pods, deployments_available <= num_deployments, every count
\* non-negative, and both gauges in [0,100].
C12_StateWellFormed ==
    (state # <<>>) =>
        LET c == state[1]
        IN  /\ c.nodes_ready <= c.num_nodes
            /\ c.pods_running <= c.num_pods
            /\ c.deployments_available <= c.num_deployments
            /\ \A n \in { c.num_nodes, c.nodes_ready, c.nodes_not_ready,
                          c.num_pods, c.pods_running, c.pods_pending,
                          c.pods_failed, c.pods_unknown, c.num_deployments,
                          c.deployments_available, c.deployments_unavailable,
                          c.recent_events_warning, c.recent_events_normal } :
                  n >= 0
            /\ 0 <= c.cpu_usage_percent /\ c.cpu_usage_percent <= 100
            /\ 0 <= c.memory_usage_percent /\ c.memory_usage_percent <= 100

\* C12 witness: a real-cluster step counted one node, not ready, and one
\* deployment, unavailable
C12_Witness ==
    /\ ~simulation_mode /\ last_call = "step"
    /\ state[1].num_nodes = 1 /\ state[1].nodes_ready = 0
    /\ state[1].nodes_not_ready = 1
    /\ state[1].num_deployments = 1 /\ state[1].deployments_unavailable = 1

\* C13: with valid action indices, the step index in the metadata is the
\* number of steps since the last reset (0 right after reset), the reported
\* cumulative reward is the sum of the rewards those steps returned, and the
\* action history is the sequence of their actions in order: as long as the
\* step counter, grown by appending only, emptied by reset.
C13_CountersAndHistory ==
    [][ /\ (last_call' = "reset") =>
              /\ current_step' = 0 /\ info'.step = 0
              /\ total_reward' = 0 /\ action_history' = <<>>
        /\ (last_call' = "step") =>
              /\ current_step' = current_step + 1
              /\ info'.step = current_step'
              /\ total_reward' = total_reward + reward'
              /\ info'.total_reward = total_reward'
              /\ Len(action_history') = current_step'
              /\ SubSeq(action_history', 1, Len(action_history))
                     = action_history
              /\ action_history'[Len(action_history')] \in Actions
              /\ info'.action
                     = ActionName(action_history'[Len(action_history')])
      ]_vars

\* C13 witness: the third step of an episode, whose three actions differ and
\* whose cumulative reward differs from the reward of this step
C13_Witness ==
    /\ last_call = "step" /\ current_step = 3 /\ info.step = 3
    /\ action_history = <<UNCORDON_NODE, RESTART_FAILED_PODS, WAIT>>
    /\ reward = -1 /\ info.total_reward = 200 - 1 + 500 - 1 - 1

\* the calls an action made itself, among the calls of the last handler
C14_ActionCalls ==
    SelectSeq(kubectl_log, LAMBDA e : e.cmd[Len(e.cmd)] # "json")

\* the external tool is only ever asked to 'get'; a reset makes no action
\* call; a step makes one exactly for the three query actions; a refresh asks
\* for each listing at most once
C14_ReadOnlyCalls ==
    /\ \A i \in 1 .. Len(kubectl_log) : kubectl_log[i].cmd[1] = "get"
    /\ \A i, j \in 1 .. Len(C8_RefreshCalls) :
           C8_RefreshCalls[i].cmd = C8_RefreshCalls[j].cmd => i = j
    /\ Len(C8_RefreshCalls) <= 4
    /\ (last_call = "reset") => C14_ActionCalls = <<>>
    /\ (last_call = "step") =>
           Len(C14_ActionCalls)
               = (IF LastAction \in {GET_NODES, GET_PODS, GET_EVENTS}
                  THEN 1 ELSE 0)

C14_DryRunMessage ==
    "Would execute: " \o info.action \o " (dry-run mode for safety)"

\* C14 as claimed: in real-cluster mode only GET_NODES, GET_PODS and
\* GET_EVENTS invoke the tool, with a read-only 'get'; every other action
\* makes no external call and returns success with a dry-run message; the
\* refresh issues only 'get' listings, each at most once.
C14_EveryOtherActionIsDryRun ==
    (~simulation_mode /\ last_call \in {"reset", "step"}) =>
        /\ C14_ReadOnlyCalls
        /\ ( /\ last_call = "step"
             /\ LastAction \notin {GET_NODES, GET_PODS, GET_EVENTS} )
           => /\ info.action_result.success
              /\ info.action_result.message = C14_DryRunMessage

\* C14 amended: as claimed, except that WAIT, which also makes no external
\* call and returns success, returns the message "Waiting..." and not a
\* dry-run message; the eleven other actions return the dry-run message.
C14_DryRunExceptWait ==
    (~simulation_mode /\ last_call \in {"reset", "step"}) =>
        /\ C14_ReadOnlyCalls
        /\ ( /\ last_call = "step"
             /\ LastAction \notin {GET_NODES, GET_PODS, GET_EVENTS} )
           => /\ info.action_result.success
              /\ info.action_result.message
                    = (IF LastAction = WAIT THEN "Waiting..."
                       ELSE C14_DryRunMessage)

\* C14 witness: RESTART_FAILED_PODS on a cluster with a failed pod made no
\* call of its own, answered with the dry-run message, and the refresh that
\* followed still counts the failed pod
C14_Witness ==
    /\ ~simulation_mode /\ last_call = "step"
    /\ LastAction = RESTART_FAILED_PODS
    /\ C14_ActionCalls = <<>> /\ Len(C8_RefreshCalls) = 4
    /\ info.action_result.success
    /\ info.action_result.message
          = "Would execute: RESTART_FAILED_PODS (dry-run mode for safety)"
    /\ state[1].pods_failed = 1

\* C15: every reset and every step with a valid action index returns its full
\* result tuple, in both modes and for every outcome of every external call;
\* a failed call shows only in the state (a raising refresh call gives the
\* all-zero state, a non-zero exit an empty listing) or in the action result
\* (success false, and an error message when the call raised).
C15_FailuresAreAbsorbed ==
    (last_call \in {"reset", "step"}) =>
        /\ state # <<>> /\ Len(obs) = OBS_DIM
        /\ obs = to_observation(state[1])
        /\ info.step = current_step
        /\ (last_call = "step") =>
              /\ info.action_result.success \in BOOLEAN
              /\ info.action_result.message # ""
              /\ reward \in Int
              /\ terminated \in BOOLEAN /\ truncated \in BOOLEAN
              /\ \A i \in 1 .. Len(C14_ActionCalls) :
                    LET o == C14_ActionCalls[i].outcome
                    IN  /\ info.action_result.success = (o \in {"ok", "malformed"})
                        /\ (o = "timeout") <=>
                              (info.action_result.message = "Error: timed out")
              /\ (C14_ActionCalls = <<>>) => info.action_result.success
        /\ (\E i \in 1 .. Len(C8_RefreshCalls) :
                Raises(C8_RefreshCalls[i].outcome))
              => (state[1] = EmptyState /\ \A k \in 1 .. OBS_DIM : obs[k][1] = 0)

\* C15 witness: the call of GET_PODS timed out; the step returned with
\* success false, the error message, and the state of the refresh after it
C15_Witness ==
    /\ ~simulation_mode /\ last_call = "step" /\ LastAction = GET_PODS
    /\ Len(C14_ActionCalls) = 1 /\ C14_ActionCalls[1].outcome = "timeout"
    /\ ~info.action_result.success
    /\ info.action_result.message = "Error: timed out"
    /\ Len(obs) = OBS_DIM /\ state[1].num_pods = 1 /\ info.step = 1

\* the tags in the order of their draws, and the threshold of each draw
C16_Tags ==
    <<"pod_failure", "node_not_ready", "resource_pressure", "pvc_issue",
      "network_issue">>

C16_Thresholds == <<30, 20, 20, 10, 10>>

\* the fault list the draws d of a seed give: tag i iff draw i is below
\* threshold i, in the order of the draws
C16_FaultsOf(d) ==
    LET kept == {i \in 1 .. 5 : d[i] < C16_Thresholds[i]}
    IN  SelectSeq(C16_Tags, LAMBDA t : \E i \in kept : C16_Tags[i] = t)

\* _reset_simulation gives that list for every draw
C16_DrawsDecide == \A d \in Draws : reset_simulation(d) = C16_FaultsOf(d)

\* the fault lists a seed can give
C16_FaultLists == {C16_FaultsOf(d) : d \in Draws}

C17_Stuck(list) == InList("pvc_issue", list) \/ InList("network_issue", list)

\* C17: in simulation mode, while the fault set holds pvc_issue or
\* network_issue no step reports terminated and no action removes that tag,
\* so the episode can end by truncation only; a fault set with neither holds
\* at most 3 tags, each step with the action matching a present tag removes
\* one, and the step that leaves the set empty reports terminated: at most 3
\* such steps lead to terminated.
C17_TerminationReachableIffNoStuckFault ==
    [][ (simulation_mode /\ last_call' = "step") =>
          LET a == action_history'[Len(action_history')]
          IN  /\ C17_Stuck(sim_issues) =>
                    (~terminated' /\ C17_Stuck(sim_issues'))
              /\ ~C17_Stuck(sim_issues) =>
                    /\ Len(sim_issues) <= 3
                    /\ InList(C5_Target(a), sim_issues) =>
                          Len(sim_issues') = Len(sim_issues) - 1
                    /\ terminated' <=> (sim_issues' = <<>>)
      ]_vars

\* C17 witness: three faults drawn, none stuck; the three matching actions
\* were applied and the third step reports terminated
C17_Witness ==
    /\ simulation_mode /\ last_call = "step" /\ terminated
    /\ action_history
          = <<RESTART_FAILED_PODS, UNCORDON_NODE, SCALE_DOWN_DEPLOYMENT>>
    /\ info.total_reward = (500 - 1) + (200 - 1) + (150 + 20 - 1 + 50)
    /\ sim_issues = <<>>

\* C18: in simulation mode step keeps being accepted after an episode has
\* ended, and once a step reports terminated (truncated) every later step
\* before the next reset reports terminated (truncated) too, whatever the
\* action.
C18_FlagsAreStable ==
    [][ (simulation_mode /\ last_call = "step" /\ last_call' = "step") =>
          /\ terminated => terminated'
          /\ truncated => truncated'
      ]_vars

\* C18 witness: a step taken after the episode was both terminated and
\* truncated (the state before it was all clear, the step index is beyond
\* max_steps) reports both flags again
C18_Witness ==
    /\ simulation_mode /\ last_call = "step"
    /\ current_step > max_steps /\ truncated /\ terminated
    /\ prev_state # <<>> /\ check_terminated(prev_state)
    /\ action_history[1] = UNCORDON_NODE

\* C19: a step with an index outside [0,15) raises before any action is
\* executed: the fault set, the state and the cumulative reward are as before
\* the call, but the step counter was incremented and the invalid index
\* appended to the action history, so the failed call changed the episode
\* context; the history is still as long as the step counter.
C19_InvalidIndexCountsAsStep ==
    [][ /\ Len(action_history') = current_step'
        /\ (last_call' = "step_raised") =>
              /\ sim_issues' = sim_issues
              /\ state' = state
              /\ total_reward' = total_reward
              /\ current_step' = current_step + 1
              /\ Len(action_history') = Len(action_history) + 1
              /\ SubSeq(action_history', 1, Len(action_history))
                     = action_history
              /\ action_history'[Len(action_history')] \notin Actions
              /\ <<current_step', action_history'>>
                     # <<current_step, action_history>>
      ]_vars

\* C19 witness: after a step that restarted the failed pods, a step with
\* index 15 raised: counter 2, history <<6, 15>>, the metadata, the state and
\* the cumulative reward still those of the first step
C19_Witness ==
    /\ last_call = "step_raised" /\ current_step = 2
    /\ action_history = <<RESTART_FAILED_PODS, NUM_ACTIONS>>
    /\ info.step = 1 /\ total_reward = 500 - 1
    /\ state[1].pods_failed = 0 /\ prev_state[1].pods_failed = 5

\* 1 when the step removed tag t from the fault list, else 0
C20_Cleared(t, before, after) ==
    IF InList(t, before) /\ ~InList(t, after) THEN 1 ELSE 0

\* C20: in simulation mode no step has a reward below -0.1: no step adds a
\* fault, so failed pods and not-ready nodes never increase and the two
\* penalties are never paid; the reward is -0.1, plus 5.0 when fully healthy,
\* plus 50 when pod_failure is cleared, 20 when node_not_ready is cleared and
\* 15 + 2 when resource_pressure is cleared, each at most once per episode
\* (so the cumulative reward is at most 87 plus 4.9 per step).
C20_RewardNeverBelowStepPenalty ==
    [][ (simulation_mode /\ last_call' = "step") =>
          /\ reward' >= -1
          /\ \A t \in TagSet(sim_issues') : InList(t, sim_issues)
          /\ (state # <<>>) =>
                /\ state'[1].pods_failed <= state[1].pods_failed
                /\ state'[1].nodes_not_ready <= state[1].nodes_not_ready
                /\ reward' =
                      -1 + (IF FullyHealthy(state'[1]) THEN 50 ELSE 0)
                      + 500 * C20_Cleared("pod_failure", sim_issues, sim_issues')
                      + 200 * C20_Cleared("node_not_ready", sim_issues, sim_issues')
                      + (150 + 20)
                          * C20_Cleared("resource_pressure", sim_issues, sim_issues')
          /\ total_reward' >= 0 - current_step'
          /\ total_reward' <= 500 + 200 + 150 + 20 + 49 * current_step'
      ]_vars

\* C20 witness: the second RESTART_FAILED_PODS of an episode earned nothing
\* (-0.1), and clearing resource_pressure then earned 15 + 2 - 0.1 + 5
C20_Witness ==
    /\ simulation_mode /\ last_call = "step"
    /\ action_history
          = <<RESTART_FAILED_PODS, RESTART_FAILED_PODS, SCALE_DOWN_DEPLOYMENT>>
    /\ reward = 150 + 20 - 1 + 50
    /\ info.total_reward = (500 - 1) + (0 - 1) + (150 + 20 - 1 + 50)

\* C21: in simulation mode every observation returned by reset and by step
\* lies in the declared observation space: 18 entries, each in [0,1], the
\* absolute-scale slots included (5 nodes / 100, 50 pods / 1000 and
\* 10 deployments / 100).
C21_SimObservationInSpace ==
    (simulation_mode /\ last_call \in {"reset", "step"}) =>
        /\ Len(obs) = OBS_DIM
        /\ \A i \in 1 .. OBS_DIM : InUnit(obs[i])
        /\ obs[1] = <<5, 100>> /\ obs[4] = <<50, 1000>>
        /\ obs[9] = <<10, 100>>

\* C21 witness: the observation of a step that left resource_pressure and
\* node_not_ready active: CPU 0.8, 4 of 5 nodes ready, 3 of 50 pods pending,
\* the pressure flag 1
C21_Witness ==
    /\ simulation_mode /\ last_call = "step" /\ current_step = 2
    /\ obs[12] = <<80, 100>> /\ obs[2] = <<4, 5>> /\ obs[6] = <<3, 50>>
    /\ obs[18] = <<1, 1>> /\ obs[7] = <<0, 50>>
    /\ action_history[1] = RESTART_FAILED_PODS

====
